---- MODULE Spec2Model ----
(***************************************************************************)
(* The calculator of src/App.tsx: four pieces of React state               *)
(* (currentOperand, previousOperand, operation, overwrite), the handlers   *)
(* clear, deleteNumber, appendNumber, compute and chooseOperation, and the *)
(* display function formatOperand.                                         *)
(*                                                                         *)
(* Operand texts are sequences of one-character strings.  A JavaScript     *)
(* number is modelled as a record [kind, neg, num, den]: kind "fin" is the *)
(* exact value num / den with sign neg (num and den are natural numbers    *)
(* written as sequences of decimal digits, most significant first, without *)
(* leading zeros, so that no machine-integer width limits them), kind      *)
(* "inf" is +-Infinity and kind "nan" is NaN.  The sign of zero is kept.   *)
(* Arithmetic is exact where a double carries rounding noise below the     *)
(* eighth decimal place; the two agree after Math.round for the magnitudes *)
(* the bounds below allow (far below 2^53 / 10^8).                         *)
(***************************************************************************)
EXTENDS Integers, Sequences, FiniteSets, TLC

(***************************************************************************)
(* Bounds of the model.                                                    *)
(***************************************************************************)
\* digit keys offered to the user: "0" .. MaxDigit
MaxDigit == 3
\* number keys (digits and '.') pressed between two clears
MaxKeys == 3
\* compute or chooseOperation runs with both operands present, between two clears
MaxOps == 2
\* digit keys of the scripted chain "a op1 b op2 c =": "0" .. ChainMaxDigit
ChainMaxDigit == 3
\* keys typed for the three operands of a chain, in total
ChainMaxKeys == 3
\* number keys pressed between two clears when only the keyboard is used
KeyMaxKeys == 2

(***************************************************************************)
(* JavaScript evaluates the arguments of a call once, before the call.     *)
(* Strict applies F to the values of its arguments.                        *)
(***************************************************************************)
Strict1(F(_), x) == CHOOSE r \in {F(v) : v \in {x}} : TRUE

Strict2(F(_, _), x, y) == CHOOSE r \in {F(v, w) : v \in {x}, w \in {y}} : TRUE

Strict3(F(_, _, _), x, y, z) ==
    CHOOSE r \in {F(u, v, w) : u \in {x}, v \in {y}, w \in {z}} : TRUE

(***************************************************************************)
(* Natural numbers as digit sequences.                                     *)
(***************************************************************************)
RECURSIVE Norm(_)
Norm(a0) ==
    Strict1(LAMBDA a : IF a # <<>> /\ Head(a) = 0 THEN Norm(Tail(a)) ELSE a, a0)

Zeros(n) == [i \in 1..n |-> 0]

Front(a) == SubSeq(a, 1, Len(a) - 1)

Last(a) == a[Len(a)]

\* -1, 0, 1 as a < b, a = b, a > b; both normalised
CmpNat(a0, b0) ==
    Strict2(LAMBDA a, b :
        IF Len(a) < Len(b) THEN -1
        ELSE IF Len(a) > Len(b) THEN 1
        ELSE IF a = b THEN 0
        ELSE LET i == CHOOSE j \in 1..Len(a) :
                          a[j] # b[j] /\ \A k \in 1..(j - 1) : a[k] = b[k]
             IN IF a[i] < b[i] THEN -1 ELSE 1,
        a0, b0)

RECURSIVE AddCarry(_, _, _)
AddCarry(a0, b0, c0) ==
    Strict3(LAMBDA a, b, c :
        IF a = <<>> /\ b = <<>> THEN (IF c = 0 THEN <<>> ELSE <<c>>)
        ELSE LET s == (IF a = <<>> THEN 0 ELSE Last(a))
                      + (IF b = <<>> THEN 0 ELSE Last(b)) + c
             IN AddCarry(IF a = <<>> THEN a ELSE Front(a),
                         IF b = <<>> THEN b ELSE Front(b), s \div 10) \o <<s % 10>>,
        a0, b0, c0)

AddNat(a, b) == Norm(AddCarry(a, b, 0))

\* a - b for a >= b
RECURSIVE SubBorrow(_, _, _)
SubBorrow(a0, b0, c0) ==
    Strict3(LAMBDA a, b, c :
        IF a = <<>> THEN <<>>
        ELSE LET d == Last(a) - (IF b = <<>> THEN 0 ELSE Last(b)) - c
             IN SubBorrow(Front(a), IF b = <<>> THEN b ELSE Front(b),
                          IF d < 0 THEN 1 ELSE 0) \o <<(d + 10) % 10>>,
        a0, b0, c0)

SubNat(a, b) == Norm(SubBorrow(a, b, 0))

\* a times one digit d
RECURSIVE MulDigit(_, _, _)
MulDigit(a0, d0, c0) ==
    Strict3(LAMBDA a, d, c :
        IF a = <<>> THEN (IF c = 0 THEN <<>> ELSE <<c>>)
        ELSE LET s == Last(a) * d + c
             IN MulDigit(Front(a), d, s \div 10) \o <<s % 10>>,
        a0, d0, c0)

\* a is 1 followed by zeros
IsPow10(a) == a # <<>> /\ a[1] = 1 /\ \A i \in 2..Len(a) : a[i] = 0

\* schoolbook multiplication, one digit of b at a time
RECURSIVE MulLong(_, _)
MulLong(a0, b0) ==
    Strict2(LAMBDA a, b :
        IF a = <<>> \/ b = <<>> THEN <<>>
        ELSE AddNat(Norm(MulLong(a, Front(b)) \o <<0>>), Norm(MulDigit(a, Last(b), 0))),
        a0, b0)

\* a * b; a power of ten only appends its zeros
MulNat(a0, b0) ==
    Strict2(LAMBDA a, b :
        IF a = <<>> \/ b = <<>> THEN <<>>
        ELSE IF IsPow10(b) THEN a \o Tail(b)
        ELSE IF IsPow10(a) THEN b \o Tail(a)
        ELSE MulLong(a, b),
        a0, b0)

\* how many times d (> 0) fits into r
RECURSIVE Fits(_, _)
Fits(r0, d0) ==
    Strict2(LAMBDA r, d : IF CmpNat(r, d) < 0 THEN 0 ELSE 1 + Fits(SubNat(r, d), d),
            r0, d0)

RECURSIVE SubTimes(_, _, _)
SubTimes(r0, d0, n0) ==
    Strict3(LAMBDA r, d, n : IF n = 0 THEN r ELSE SubTimes(SubNat(r, d), d, n - 1),
            r0, d0, n0)

\* long division of a by d (> 0): [q |-> quotient, r |-> remainder]
RECURSIVE DivLong(_, _)
DivLong(a0, d0) ==
    Strict2(LAMBDA a, d :
        IF a = <<>> THEN [q |-> <<>>, r |-> <<>>]
        ELSE Strict1(LAMBDA p :
                 Strict1(LAMBDA r :
                     Strict1(LAMBDA n : [q |-> Norm(p.q \o <<n>>), r |-> SubTimes(r, d, n)],
                             Fits(r, d)),
                     Norm(p.r \o <<Last(a)>>)),
                 DivLong(Front(a), d)),
        a0, d0)

RECURSIVE IntOfNat(_)
IntOfNat(a0) ==
    Strict1(LAMBDA a : IF a = <<>> THEN 0 ELSE 10 * IntOfNat(Front(a)) + Last(a), a0)

RECURSIVE NatOfInt(_)
NatOfInt(n) == IF n = 0 THEN <<>> ELSE NatOfInt(n \div 10) \o <<n % 10>>

\* short division of a by a divisor d below 10^8, which machine integers
\* carry: [q |-> the digits of the quotient, r |-> the remainder]
RECURSIVE DivShort(_, _)
DivShort(a0, d0) ==
    Strict2(LAMBDA a, d :
        IF a = <<>> THEN [q |-> <<>>, r |-> 0]
        ELSE Strict1(LAMBDA p : [q |-> p.q \o <<(10 * p.r + Last(a)) \div d>>,
                                 r |-> (10 * p.r + Last(a)) % d],
                     DivShort(Front(a), d)),
        a0, d0)

\* a divided by d (> 0): [q |-> quotient, r |-> remainder]; a power of ten
\* only cuts the digits, and zeros that end both a and d are set aside
RECURSIVE DivModNat(_, _)
DivModNat(a0, d0) ==
    Strict2(LAMBDA a, d :
        IF a = <<>> THEN [q |-> <<>>, r |-> <<>>]
        ELSE IF IsPow10(d)
        THEN (IF Len(a) < Len(d) THEN [q |-> <<>>, r |-> a]
              ELSE [q |-> SubSeq(a, 1, Len(a) - Len(d) + 1),
                    r |-> Norm(SubSeq(a, Len(a) - Len(d) + 2, Len(a)))])
        ELSE IF Last(a) = 0 /\ Last(d) = 0
        THEN Strict1(LAMBDA p : [q |-> p.q, r |-> IF p.r = <<>> THEN <<>> ELSE p.r \o <<0>>],
                     DivModNat(Front(a), Front(d)))
        ELSE IF Len(d) <= 8
        THEN Strict1(LAMBDA p : [q |-> Norm(p.q), r |-> NatOfInt(p.r)],
                     DivShort(a, IntOfNat(d)))
        ELSE DivLong(a, d),
        a0, d0)

Pow10(n) == <<1>> \o Zeros(n)

(***************************************************************************)
(* Characters and texts.                                                   *)
(***************************************************************************)
DigitChars == <<"0", "1", "2", "3", "4", "5", "6", "7", "8", "9">>

DigitChar(n) == DigitChars[n + 1]

IsDigit(c) == \E i \in 1..10 : DigitChars[i] = c

DigitVal(c) == (CHOOSE i \in 1..10 : DigitChars[i] = c) - 1

TextOfNat(a0) == Strict1(LAMBDA a : [i \in 1..Len(a) |-> DigitChar(a[i])], a0)

NatOfText(s0) == Strict1(LAMBDA s : [i \in 1..Len(s) |-> DigitVal(s[i])], s0)

\* String.prototype.includes, for a one-character needle
Includes(s, c) == \E i \in 1..Len(s) : s[i] = c

\* String.prototype.startsWith
StartsWith(s, t) == Len(s) >= Len(t) /\ SubSeq(s, 1, Len(t)) = t

\* the text after the first n characters
Drop(s, n) == SubSeq(s, n + 1, Len(s))

\* length of the longest prefix of s made of decimal digits
DigitPrefixLen(s0) ==
    Strict1(LAMBDA s :
        IF \A i \in 1..Len(s) : IsDigit(s[i]) THEN Len(s)
        ELSE (CHOOSE i \in 1..Len(s) :
                  ~IsDigit(s[i]) /\ \A j \in 1..(i - 1) : IsDigit(s[j])) - 1,
        s0)

StripTrailingZeros(a0) ==
    Strict1(LAMBDA a :
        IF \A i \in 1..Len(a) : a[i] = 0 THEN <<>>
        ELSE SubSeq(a, 1, CHOOSE i \in 1..Len(a) :
                              a[i] # 0 /\ \A j \in (i + 1)..Len(a) : a[j] = 0),
        a0)

(***************************************************************************)
(* JavaScript numbers: [kind, neg, num, den] is (-1)^neg * num / den for   *)
(* kind "fin" (den > 0), +-Infinity for kind "inf", NaN for kind "nan".    *)
(***************************************************************************)
Fin(neg, num, den) == [kind |-> "fin", neg |-> neg, num |-> num, den |-> den]

Inf(neg) == [kind |-> "inf", neg |-> neg, num |-> <<>>, den |-> <<1>>]

NaN == [kind |-> "nan", neg |-> FALSE, num |-> <<>>, den |-> <<1>>]

isNaN(x) == x.kind = "nan"

IsZero(x) == x.kind = "fin" /\ x.num = <<>>

\* the same mathematical value (NaN equals nothing, the zeros are equal)
NumEq(x0, y0) ==
    Strict2(LAMBDA x, y :
        /\ x.kind = y.kind
        /\ x.kind # "nan"
        /\ x.kind = "inf" => x.neg = y.neg
        /\ x.kind = "fin" => /\ MulNat(x.num, y.den) = MulNat(y.num, x.den)
                             /\ (x.num # <<>> => x.neg = y.neg),
        x0, y0)

Negate(x) == IF x.kind = "nan" THEN x ELSE [x EXCEPT !.neg = ~x.neg]

\* prev + current
NumAdd(x0, y0) ==
    Strict2(LAMBDA x, y :
        IF x.kind = "nan" \/ y.kind = "nan" THEN NaN
        ELSE IF x.kind = "inf" /\ y.kind = "inf"
             THEN (IF x.neg = y.neg THEN x ELSE NaN)
        ELSE IF x.kind = "inf" THEN x
        ELSE IF y.kind = "inf" THEN y
        ELSE Strict3(LAMBDA a, b, d :
                 IF x.neg = y.neg THEN Fin(x.neg, AddNat(a, b), d)
                 ELSE IF CmpNat(a, b) = 0 THEN Fin(FALSE, <<>>, d)
                 ELSE IF CmpNat(a, b) > 0 THEN Fin(x.neg, SubNat(a, b), d)
                 ELSE Fin(y.neg, SubNat(b, a), d),
                 IF x.den = y.den THEN x.num ELSE MulNat(x.num, y.den),
                 IF x.den = y.den THEN y.num ELSE MulNat(y.num, x.den),
                 IF x.den = y.den THEN x.den ELSE MulNat(x.den, y.den)),
        x0, y0)

\* prev - current
NumSub(x, y) == NumAdd(x, Negate(y))

\* prev * current
NumMul(x0, y0) ==
    Strict2(LAMBDA x, y :
        IF x.kind = "nan" \/ y.kind = "nan" THEN NaN
        ELSE IF x.kind = "inf" \/ y.kind = "inf"
             THEN (IF IsZero(x) \/ IsZero(y) THEN NaN ELSE Inf(x.neg # y.neg))
        ELSE Fin(x.neg # y.neg, MulNat(x.num, y.num), MulNat(x.den, y.den)),
        x0, y0)

\* prev / current
NumDiv(x0, y0) ==
    Strict2(LAMBDA x, y :
        IF x.kind = "nan" \/ y.kind = "nan" THEN NaN
        ELSE IF x.kind = "inf"
             THEN (IF y.kind = "inf" THEN NaN ELSE Inf(x.neg # y.neg))
        ELSE IF y.kind = "inf" THEN Fin(x.neg # y.neg, <<>>, <<1>>)
        ELSE IF IsZero(y)
             THEN (IF IsZero(x) THEN NaN ELSE Inf(x.neg # y.neg))
        ELSE Fin(x.neg # y.neg, MulNat(x.num, y.den), MulNat(x.den, y.num)),
        x0, y0)

\* the number of decimal places kept by compute and chooseOperation
Places == 8

\* Math.trunc(x * 100000000) / 100000000: rounding towards zero
Trunc8(x0) ==
    Strict1(LAMBDA x :
        IF x.kind # "fin" THEN x
        ELSE Fin(x.neg, DivModNat(MulNat(x.num, Pow10(Places)), x.den).q, Pow10(Places)),
        x0)

\* Math.round(x * 100000000) / 100000000: the multiples of 10^-8 the
\* rounding can yield, as numbers with denominator 10^8.  Math.round rounds
\* to nearest, ties towards +Infinity; where the exact value lies exactly
\* halfway the noise of the double decides, so both neighbours are possible
Round8(x0) ==
    Strict1(LAMBDA x :
        IF x.kind # "fin" THEN {x}
        ELSE Strict1(LAMBDA dm :
                 Strict1(LAMBDA c :
                     IF c < 0 THEN {Fin(x.neg, dm.q, Pow10(Places))}
                     ELSE IF c > 0 THEN {Fin(x.neg, AddNat(dm.q, <<1>>), Pow10(Places))}
                     ELSE {Fin(x.neg, dm.q, Pow10(Places)),
                           Fin(x.neg, AddNat(dm.q, <<1>>), Pow10(Places))},
                     CmpNat(AddNat(dm.r, dm.r), x.den)),
                 DivModNat(MulNat(x.num, Pow10(Places)), x.den)),
        x0)

InfinityText == <<"I", "n", "f", "i", "n", "i", "t", "y">>

NaNText == <<"N", "a", "N">>

\* the exponent part of a decimal literal: "e" or "E", an optional sign and
\* digits at the start of rest; 0 when there is none
ExponentOf(rest0) ==
    Strict1(LAMBDA rest :
        IF rest = <<>> \/ Head(rest) \notin {"e", "E"} THEN 0
        ELSE Strict1(LAMBDA eBody :
                 Strict1(LAMBDA el :
                     IF el = 0 THEN 0
                     ELSE (IF rest[2] = "-" THEN -1 ELSE 1)
                          * IntOfNat(Norm(NatOfText(SubSeq(eBody, 1, el)))),
                     DigitPrefixLen(eBody)),
                 IF Len(rest) >= 2 /\ rest[2] \in {"-", "+"}
                 THEN Drop(rest, 2) ELSE Drop(rest, 1)),
        rest0)

\* the value of the digits with fl of them after the point and the exponent e
Scaled(neg, digits0, places0) ==
    Strict2(LAMBDA digits, places :
        IF places >= 0 THEN Fin(neg, Norm(NatOfText(digits)), Pow10(places))
        ELSE Fin(neg, Norm(NatOfText(digits) \o Zeros(-places)), <<1>>),
        digits0, places0)

\* an unsigned decimal literal at the start of body: digits, an optional
\* '.' with digits (one of the two digit runs may be empty, not both), an
\* optional exponent; or "Infinity"
ParseUnsigned(neg, body0) ==
    Strict1(LAMBDA body :
        IF StartsWith(body, InfinityText) THEN Inf(neg)
        ELSE Strict1(LAMBDA il :
                 IF il < Len(body) /\ body[il + 1] = "."
                 THEN Strict1(LAMBDA fl :
                          IF il = 0 /\ fl = 0 THEN NaN
                          ELSE Scaled(neg,
                                      SubSeq(body, 1, il) \o SubSeq(body, il + 2, il + 1 + fl),
                                      fl - ExponentOf(Drop(body, il + 1 + fl))),
                          DigitPrefixLen(Drop(body, il + 1)))
                 ELSE IF il = 0 THEN NaN
                 ELSE Scaled(neg, SubSeq(body, 1, il), -ExponentOf(Drop(body, il))),
                 DigitPrefixLen(body)),
        body0)

\* parseFloat: the longest prefix that is a decimal literal, NaN if none
parseFloat(s0) ==
    Strict1(LAMBDA s :
        IF s # <<>> /\ Head(s) \in {"-", "+"}
        THEN ParseUnsigned(Head(s) = "-", Tail(s))
        ELSE ParseUnsigned(FALSE, s),
        s0)

\* the digits d1 d2 d3 ... as "d1.d2d3..." (or "d1")
Mantissa(sig0) ==
    Strict1(LAMBDA sig :
        <<DigitChar(Head(sig))>>
            \o (IF Len(sig) > 1 THEN <<".">> \o TextOfNat(Tail(sig)) ELSE <<>>),
        sig0)

\* decimal notation of num / 10^8
Decimal(num0) ==
    Strict1(LAMBDA padded :
        Strict1(LAMBDA frac :
            TextOfNat(SubSeq(padded, 1, Len(padded) - Places))
                \o (IF frac = <<>> THEN <<>> ELSE <<".">> \o TextOfNat(frac)),
            StripTrailingZeros(SubSeq(padded, Len(padded) - Places + 1, Len(padded)))),
        Zeros(Places + 1 - Len(num0)) \o num0)

\* Number.prototype.toString of a value with denominator 10^8: decimal
\* notation from 1e-6 up to 1e21, exponent notation outside
toString(x0) ==
    Strict1(LAMBDA x :
        IF x.kind = "nan" THEN NaNText
        ELSE IF x.kind = "inf" THEN (IF x.neg THEN <<"-">> ELSE <<>>) \o InfinityText
        ELSE IF x.num = <<>> THEN <<"0">>
        ELSE (IF x.neg THEN <<"-">> ELSE <<>>)
             \o (IF Len(x.num) <= Places - 6
                 THEN Mantissa(StripTrailingZeros(x.num)) \o <<"e", "-">>
                      \o TextOfNat(NatOfInt(Places + 1 - Len(x.num)))
                 ELSE IF Len(x.num) >= Places + 22
                 THEN Mantissa(StripTrailingZeros(x.num)) \o <<"e", "+">>
                      \o TextOfNat(NatOfInt(Len(x.num) - Places - 1))
                 ELSE Decimal(x.num)),
        x0)

\* String.prototype.split('.') destructured as [integer, decimal]:
\* the text before the first '.', and the text between the first '.' and
\* the second (or the end); UndefinedText when there is no '.'
UndefinedText == <<"undefined">>

UpTo(s0, c) ==
    Strict1(LAMBDA s :
        IF ~Includes(s, c) THEN s
        ELSE SubSeq(s, 1, (CHOOSE i \in 1..Len(s) :
                               s[i] = c /\ \A j \in 1..(i - 1) : s[j] # c) - 1),
        s0)

SplitInteger(operand) == UpTo(operand, ".")

SplitDecimal(operand0) ==
    Strict1(LAMBDA operand :
        IF Includes(operand, ".")
        THEN UpTo(Drop(operand, Len(SplitInteger(operand)) + 1), ".")
        ELSE UndefinedText,
        operand0)

\* the one character U+221E that Intl prints for an infinite value
InfinitySign == "U+221E"

\* digits in groups of three separated by ','
RECURSIVE Grouped(_)
Grouped(t0) ==
    Strict1(LAMBDA t :
        IF Len(t) <= 3 THEN t
        ELSE Grouped(SubSeq(t, 1, Len(t) - 3)) \o <<",">> \o SubSeq(t, Len(t) - 2, Len(t)),
        t0)

\* new Intl.NumberFormat('en-US').format(x): grouping, at most three
\* fraction digits (rounded half away from zero), the sign kept on zero
IntlFormat(x0) ==
    Strict1(LAMBDA x :
        IF x.kind = "nan" THEN NaNText
        ELSE IF x.kind = "inf" THEN (IF x.neg THEN <<"-">> ELSE <<>>) \o <<InfinitySign>>
        ELSE Strict1(LAMBDA dm :
                 Strict1(LAMBDA padded :
                     (IF x.neg THEN <<"-">> ELSE <<>>)
                     \o Grouped(TextOfNat(SubSeq(padded, 1, Len(padded) - 3)))
                     \o (IF StripTrailingZeros(SubSeq(padded, Len(padded) - 2, Len(padded))) = <<>>
                         THEN <<>>
                         ELSE <<".">> \o TextOfNat(StripTrailingZeros(
                                             SubSeq(padded, Len(padded) - 2, Len(padded))))),
                     Strict1(LAMBDA m : Zeros(4 - Len(m)) \o m,
                             IF CmpNat(AddNat(dm.r, dm.r), x.den) >= 0
                             THEN AddNat(dm.q, <<1>>) ELSE dm.q)),
                 DivModNat(MulNat(x.num, Pow10(3)), x.den)),
        x0)

\* formatOperand; UndefinedText for an empty operand
formatOperand(operand) ==
    IF operand = <<>> THEN UndefinedText
    ELSE Strict2(LAMBDA integer, decimal :
             IF decimal = UndefinedText THEN IntlFormat(parseFloat(integer))
             ELSE IntlFormat(parseFloat(integer)) \o <<".">> \o decimal,
             SplitInteger(operand), SplitDecimal(operand))

(***************************************************************************)
(* The state of the component (useState, lines 5-8); the last call of a    *)
(* handler; the numbers of arithmetic evaluations and of number keys since *)
(* the last clear; the script of a chain and the position in it.           *)
(***************************************************************************)
VARIABLES currentOperand, previousOperand, operation, overwrite,
          last, nOps, nKeys, chain, pc

fields == <<currentOperand, previousOperand, operation, overwrite>>

vars == <<currentOperand, previousOperand, operation, overwrite,
          last, nOps, nKeys, chain, pc>>

\* operation when no operator is pending
Undefined == "undefined"

\* the operators of the four operator buttons
Operations == {"+", "-", "*", "÷"}

\* clear that leaves the overwrite flag as it is
clearKeepingOverwrite ==
    /\ currentOperand' = <<>>
    /\ previousOperand' = <<>>
    /\ operation' = Undefined
    /\ UNCHANGED overwrite

clear ==
    /\ currentOperand' = <<>>
    /\ previousOperand' = <<>>
    /\ operation' = Undefined
    /\ overwrite' = FALSE

\* deleteNumber without its overwrite branch: the result is trimmed
deleteNumberTrimming ==
    IF currentOperand = <<>>
    THEN UNCHANGED fields
    ELSE /\ currentOperand' = Front(currentOperand)
         /\ UNCHANGED <<previousOperand, operation, overwrite>>

deleteNumber ==
    IF overwrite
    THEN /\ currentOperand' = <<>>
         /\ overwrite' = FALSE
         /\ UNCHANGED <<previousOperand, operation>>
    ELSE IF currentOperand = <<>>
    THEN UNCHANGED fields
    ELSE /\ currentOperand' = Front(currentOperand)
         /\ UNCHANGED <<previousOperand, operation, overwrite>>

\* appendNumber without the check of line 41: a second '.' is taken
appendNumberAnyPoint(number) ==
    IF overwrite
    THEN /\ currentOperand' = <<number>>
         /\ overwrite' = FALSE
         /\ UNCHANGED <<previousOperand, operation>>
    ELSE IF number = "0" /\ currentOperand = <<"0">>
    THEN UNCHANGED fields
    ELSE IF number = "." /\ currentOperand = <<>>
    THEN /\ currentOperand' = <<"0", ".">>
         /\ UNCHANGED <<previousOperand, operation, overwrite>>
    ELSE /\ currentOperand' = Append(currentOperand, number)
         /\ UNCHANGED <<previousOperand, operation, overwrite>>

\* appendNumber without the check of line 48: zeros pile up
appendNumberAnyZero(number) ==
    IF number = "." /\ Includes(currentOperand, ".")
    THEN UNCHANGED fields
    ELSE IF overwrite
    THEN /\ currentOperand' = <<number>>
         /\ overwrite' = FALSE
         /\ UNCHANGED <<previousOperand, operation>>
    ELSE IF number = "." /\ currentOperand = <<>>
    THEN /\ currentOperand' = <<"0", ".">>
         /\ UNCHANGED <<previousOperand, operation, overwrite>>
    ELSE /\ currentOperand' = Append(currentOperand, number)
         /\ UNCHANGED <<previousOperand, operation, overwrite>>

\* appendNumber that appends to a result instead of replacing it
appendNumberExtending(number) ==
    IF number = "." /\ Includes(currentOperand, ".")
    THEN UNCHANGED fields
    ELSE IF number = "0" /\ currentOperand = <<"0">>
    THEN UNCHANGED fields
    ELSE IF number = "." /\ currentOperand = <<>>
    THEN /\ currentOperand' = <<"0", ".">>
         /\ overwrite' = FALSE
         /\ UNCHANGED <<previousOperand, operation>>
    ELSE /\ currentOperand' = Append(currentOperand, number)
         /\ overwrite' = FALSE
         /\ UNCHANGED <<previousOperand, operation>>

\* appendNumber whose check of line 48 looks for an empty operand, not "0"
appendNumberZeroOnEmpty(number) ==
    IF number = "." /\ Includes(currentOperand, ".")
    THEN UNCHANGED fields
    ELSE IF overwrite
    THEN /\ currentOperand' = <<number>>
         /\ overwrite' = FALSE
         /\ UNCHANGED <<previousOperand, operation>>
    ELSE IF number = "0" /\ currentOperand = <<>>
    THEN UNCHANGED fields
    ELSE IF number = "." /\ currentOperand = <<>>
    THEN /\ currentOperand' = <<"0", ".">>
         /\ UNCHANGED <<previousOperand, operation, overwrite>>
    ELSE /\ currentOperand' = Append(currentOperand, number)
         /\ UNCHANGED <<previousOperand, operation, overwrite>>

appendNumber(number) ==
    IF number = "." /\ Includes(currentOperand, ".")
    THEN UNCHANGED fields
    ELSE IF overwrite
    THEN /\ currentOperand' = <<number>>
         /\ overwrite' = FALSE
         /\ UNCHANGED <<previousOperand, operation>>
    ELSE IF number = "0" /\ currentOperand = <<"0">>
    THEN UNCHANGED fields
    ELSE IF number = "." /\ currentOperand = <<>>
    THEN /\ currentOperand' = <<"0", ".">>
         /\ UNCHANGED <<previousOperand, operation, overwrite>>
    ELSE /\ currentOperand' = Append(currentOperand, number)
         /\ UNCHANGED <<previousOperand, operation, overwrite>>

\* compute with Math.trunc in the place of Math.round
computeTruncating ==
    \E prev \in {parseFloat(previousOperand)}, current \in {parseFloat(currentOperand)} :
        IF isNaN(prev) \/ isNaN(current)
        THEN UNCHANGED fields
        ELSE IF operation \notin {"+", "-", "*", "÷", "/"}
        THEN UNCHANGED fields
        ELSE \E computation \in {Trunc8(CASE operation = "+" -> NumAdd(prev, current)
                                          [] operation = "-" -> NumSub(prev, current)
                                          [] operation = "*" -> NumMul(prev, current)
                                          [] operation \in {"÷", "/"} -> NumDiv(prev, current))} :
                 /\ currentOperand' = toString(computation)
                 /\ operation' = Undefined
                 /\ previousOperand' = <<>>
                 /\ overwrite' = TRUE

\* compute without the guard of line 64: operands that do not parse are used
computeUnguarded ==
    \E prev \in {parseFloat(previousOperand)}, current \in {parseFloat(currentOperand)} :
        IF operation \notin {"+", "-", "*", "÷", "/"}
        THEN UNCHANGED fields
        ELSE \E computation \in Round8(CASE operation = "+" -> NumAdd(prev, current)
                                         [] operation = "-" -> NumSub(prev, current)
                                         [] operation = "*" -> NumMul(prev, current)
                                         [] operation \in {"÷", "/"} -> NumDiv(prev, current)) :
                 /\ currentOperand' = toString(computation)
                 /\ operation' = Undefined
                 /\ previousOperand' = <<>>
                 /\ overwrite' = TRUE

\* compute that does not set the overwrite flag
computeNotOverwriting ==
    \E prev \in {parseFloat(previousOperand)}, current \in {parseFloat(currentOperand)} :
        IF isNaN(prev) \/ isNaN(current)
        THEN UNCHANGED fields
        ELSE IF operation \notin {"+", "-", "*", "÷", "/"}
        THEN UNCHANGED fields
        ELSE \E computation \in Round8(CASE operation = "+" -> NumAdd(prev, current)
                                         [] operation = "-" -> NumSub(prev, current)
                                         [] operation = "*" -> NumMul(prev, current)
                                         [] operation \in {"÷", "/"} -> NumDiv(prev, current)) :
                 /\ currentOperand' = toString(computation)
                 /\ operation' = Undefined
                 /\ previousOperand' = <<>>
                 /\ UNCHANGED overwrite

\* compute that leaves the operation pending
computeKeepingOperation ==
    \E prev \in {parseFloat(previousOperand)}, current \in {parseFloat(currentOperand)} :
        IF isNaN(prev) \/ isNaN(current)
        THEN UNCHANGED fields
        ELSE IF operation \notin {"+", "-", "*", "÷", "/"}
        THEN UNCHANGED fields
        ELSE \E computation \in Round8(CASE operation = "+" -> NumAdd(prev, current)
                                         [] operation = "-" -> NumSub(prev, current)
                                         [] operation = "*" -> NumMul(prev, current)
                                         [] operation \in {"÷", "/"} -> NumDiv(prev, current)) :
                 /\ currentOperand' = toString(computation)
                 /\ UNCHANGED operation
                 /\ previousOperand' = <<>>
                 /\ overwrite' = TRUE

compute ==
    \E prev \in {parseFloat(previousOperand)}, current \in {parseFloat(currentOperand)} :
        IF isNaN(prev) \/ isNaN(current)
        THEN UNCHANGED fields
        ELSE IF operation \notin {"+", "-", "*", "÷", "/"}
        THEN UNCHANGED fields
        ELSE \E computation \in Round8(CASE operation = "+" -> NumAdd(prev, current)
                                         [] operation = "-" -> NumSub(prev, current)
                                         [] operation = "*" -> NumMul(prev, current)
                                         [] operation \in {"÷", "/"} -> NumDiv(prev, current)) :
                 /\ currentOperand' = toString(computation)
                 /\ operation' = Undefined
                 /\ previousOperand' = <<>>
                 /\ overwrite' = TRUE

\* chooseOperation that never folds: the previous operand is overwritten
chooseOperationReplacing(op) ==
    IF currentOperand = <<>>
    THEN UNCHANGED fields
    ELSE /\ previousOperand' = currentOperand
         /\ operation' = op
         /\ currentOperand' = <<>>
         /\ UNCHANGED overwrite

\* chooseOperation without the guard of line 95
chooseOperationUnguarded(op) ==
    IF previousOperand # <<>>
    THEN \E prev \in {parseFloat(previousOperand)}, current \in {parseFloat(currentOperand)} :
            IF ~isNaN(prev) /\ ~isNaN(current)
            THEN IF operation \notin {"+", "-", "*", "÷", "/"}
                 THEN UNCHANGED fields
                 ELSE \E computation \in Round8(CASE operation = "+" -> NumAdd(prev, current)
                                                  [] operation = "-" -> NumSub(prev, current)
                                                  [] operation = "*" -> NumMul(prev, current)
                                                  [] operation \in {"÷", "/"} -> NumDiv(prev, current)) :
                          /\ previousOperand' = toString(computation)
                          /\ operation' = op
                          /\ currentOperand' = <<>>
                          /\ UNCHANGED overwrite
            ELSE /\ previousOperand' = currentOperand
                 /\ operation' = op
                 /\ currentOperand' = <<>>
                 /\ UNCHANGED overwrite
    ELSE /\ previousOperand' = currentOperand
         /\ operation' = op
         /\ currentOperand' = <<>>
         /\ UNCHANGED overwrite

\* chooseOperation that lets a second operator replace the pending one
chooseOperationSwitching(op) ==
    IF currentOperand = <<>>
    THEN IF previousOperand # <<>>
         THEN operation' = op /\ UNCHANGED <<currentOperand, previousOperand, overwrite>>
         ELSE UNCHANGED fields
    ELSE IF previousOperand # <<>>
    THEN \E prev \in {parseFloat(previousOperand)}, current \in {parseFloat(currentOperand)} :
            IF ~isNaN(prev) /\ ~isNaN(current)
            THEN IF operation \notin {"+", "-", "*", "÷", "/"}
                 THEN UNCHANGED fields
                 ELSE \E computation \in Round8(CASE operation = "+" -> NumAdd(prev, current)
                                                  [] operation = "-" -> NumSub(prev, current)
                                                  [] operation = "*" -> NumMul(prev, current)
                                                  [] operation \in {"÷", "/"} -> NumDiv(prev, current)) :
                          /\ previousOperand' = toString(computation)
                          /\ operation' = op
                          /\ currentOperand' = <<>>
                          /\ UNCHANGED overwrite
            ELSE /\ previousOperand' = currentOperand
                 /\ operation' = op
                 /\ currentOperand' = <<>>
                 /\ UNCHANGED overwrite
    ELSE /\ previousOperand' = currentOperand
         /\ operation' = op
         /\ currentOperand' = <<>>
         /\ UNCHANGED overwrite

\* chooseOperation that folds with the operands the other way round
chooseOperationSwapped(op) ==
    IF currentOperand = <<>>
    THEN UNCHANGED fields
    ELSE IF previousOperand # <<>>
    THEN \E prev \in {parseFloat(previousOperand)}, current \in {parseFloat(currentOperand)} :
            IF ~isNaN(prev) /\ ~isNaN(current)
            THEN IF operation \notin {"+", "-", "*", "÷", "/"}
                 THEN UNCHANGED fields
                 ELSE \E computation \in Round8(CASE operation = "+" -> NumAdd(current, prev)
                                                  [] operation = "-" -> NumSub(current, prev)
                                                  [] operation = "*" -> NumMul(current, prev)
                                                  [] operation \in {"÷", "/"} -> NumDiv(current, prev)) :
                          /\ previousOperand' = toString(computation)
                          /\ operation' = op
                          /\ currentOperand' = <<>>
                          /\ UNCHANGED overwrite
            ELSE /\ previousOperand' = currentOperand
                 /\ operation' = op
                 /\ currentOperand' = <<>>
                 /\ UNCHANGED overwrite
    ELSE /\ previousOperand' = currentOperand
         /\ operation' = op
         /\ currentOperand' = <<>>
         /\ UNCHANGED overwrite

\* chooseOperation whose fallback keeps the previous operand
chooseOperationKeeping(op) ==
    IF currentOperand = <<>>
    THEN UNCHANGED fields
    ELSE IF previousOperand # <<>>
    THEN \E prev \in {parseFloat(previousOperand)}, current \in {parseFloat(currentOperand)} :
            IF ~isNaN(prev) /\ ~isNaN(current)
            THEN IF operation \notin {"+", "-", "*", "÷", "/"}
                 THEN UNCHANGED fields
                 ELSE \E computation \in Round8(CASE operation = "+" -> NumAdd(prev, current)
                                                  [] operation = "-" -> NumSub(prev, current)
                                                  [] operation = "*" -> NumMul(prev, current)
                                                  [] operation \in {"÷", "/"} -> NumDiv(prev, current)) :
                          /\ previousOperand' = toString(computation)
                          /\ operation' = op
                          /\ currentOperand' = <<>>
                          /\ UNCHANGED overwrite
            ELSE /\ UNCHANGED previousOperand
                 /\ operation' = op
                 /\ currentOperand' = <<>>
                 /\ UNCHANGED overwrite
    ELSE /\ previousOperand' = currentOperand
         /\ operation' = op
         /\ currentOperand' = <<>>
         /\ UNCHANGED overwrite

\* chooseOperation that clears the overwrite flag when it takes the operand
chooseOperationClearing(op) ==
    IF currentOperand = <<>>
    THEN UNCHANGED fields
    ELSE IF previousOperand # <<>>
    THEN \E prev \in {parseFloat(previousOperand)}, current \in {parseFloat(currentOperand)} :
            IF ~isNaN(prev) /\ ~isNaN(current)
            THEN IF operation \notin {"+", "-", "*", "÷", "/"}
                 THEN UNCHANGED fields
                 ELSE \E computation \in Round8(CASE operation = "+" -> NumAdd(prev, current)
                                                  [] operation = "-" -> NumSub(prev, current)
                                                  [] operation = "*" -> NumMul(prev, current)
                                                  [] operation \in {"÷", "/"} -> NumDiv(prev, current)) :
                          /\ previousOperand' = toString(computation)
                          /\ operation' = op
                          /\ currentOperand' = <<>>
                          /\ overwrite' = FALSE
            ELSE /\ previousOperand' = currentOperand
                 /\ operation' = op
                 /\ currentOperand' = <<>>
                 /\ overwrite' = FALSE
    ELSE /\ previousOperand' = currentOperand
         /\ operation' = op
         /\ currentOperand' = <<>>
         /\ overwrite' = FALSE

chooseOperation(op) ==
    IF currentOperand = <<>>
    THEN UNCHANGED fields
    ELSE IF previousOperand # <<>>
    THEN \E prev \in {parseFloat(previousOperand)}, current \in {parseFloat(currentOperand)} :
            IF ~isNaN(prev) /\ ~isNaN(current)
            THEN IF operation \notin {"+", "-", "*", "÷", "/"}
                 THEN UNCHANGED fields
                 ELSE \E computation \in Round8(CASE operation = "+" -> NumAdd(prev, current)
                                                  [] operation = "-" -> NumSub(prev, current)
                                                  [] operation = "*" -> NumMul(prev, current)
                                                  [] operation \in {"÷", "/"} -> NumDiv(prev, current)) :
                          /\ previousOperand' = toString(computation)
                          /\ operation' = op
                          /\ currentOperand' = <<>>
                          /\ UNCHANGED overwrite
            ELSE /\ previousOperand' = currentOperand
                 /\ operation' = op
                 /\ currentOperand' = <<>>
                 /\ UNCHANGED overwrite
    ELSE /\ previousOperand' = currentOperand
         /\ operation' = op
         /\ currentOperand' = <<>>
         /\ UNCHANGED overwrite

\* before any call
NoCall == [handler |-> "none", arg |-> "", overwrite |-> FALSE, changed |-> FALSE]

\* a call of a handler: its name, its argument, the overwrite flag it found,
\* and whether it changed the state (React renders again only then)
Call(handler, arg) ==
    last' = [handler |-> handler, arg |-> arg, overwrite |-> overwrite,
             changed |-> fields' # fields]

\* the keydown listener
\* the keydown listener without the translation of line 145
handleKeyDownUntranslated(key) ==
    IF IsDigit(key) THEN appendNumber(key) /\ Call("appendNumber", key)
    ELSE IF key = "." THEN appendNumber(".") /\ Call("appendNumber", ".")
    ELSE IF key = "=" \/ key = "Enter" THEN compute /\ Call("compute", "")
    ELSE IF key = "Backspace" THEN deleteNumber /\ Call("deleteNumber", "")
    ELSE IF key = "Escape" THEN clear /\ Call("clear", "")
    ELSE IF key = "+" \/ key = "-" \/ key = "*" \/ key = "/"
    THEN chooseOperation(key) /\ Call("chooseOperation", key)
    ELSE UNCHANGED fields /\ UNCHANGED last

handleKeyDown(key) ==
    IF IsDigit(key) THEN appendNumber(key) /\ Call("appendNumber", key)
    ELSE IF key = "." THEN appendNumber(".") /\ Call("appendNumber", ".")
    ELSE IF key = "=" \/ key = "Enter" THEN compute /\ Call("compute", "")
    ELSE IF key = "Backspace" THEN deleteNumber /\ Call("deleteNumber", "")
    ELSE IF key = "Escape" THEN clear /\ Call("clear", "")
    ELSE IF key = "+" \/ key = "-" \/ key = "*" \/ key = "/"
    THEN \E op \in {IF key = "/" THEN "÷" ELSE key} :
             chooseOperation(op) /\ Call("chooseOperation", op)
    ELSE UNCHANGED fields /\ UNCHANGED last

\* what the two lines of the display show
previousDisplay ==
    (IF formatOperand(previousOperand) = UndefinedText THEN <<>> ELSE formatOperand(previousOperand))
        \o <<" ">> \o (IF operation = Undefined THEN <<>> ELSE <<operation>>)

currentDisplay ==
    IF formatOperand(currentOperand) = UndefinedText THEN <<"0">> ELSE formatOperand(currentOperand)

(***************************************************************************)
(* The calculator driven by any sequence of button clicks and key presses. *)
(***************************************************************************)
Min(a, b) == IF a < b THEN a ELSE b

Digits == {DigitChar(i) : i \in 0..Min(MaxDigit, 9)}

Keys == Digits \cup {".", "=", "Enter", "Backspace", "Escape", "+", "-", "*", "/", "a"}

NoChain == [a |-> <<>>, op1 |-> "=", b |-> <<>>, op2 |-> "=", c |-> <<>>]

Init ==
    /\ currentOperand = <<>>
    /\ previousOperand = <<>>
    /\ operation = Undefined
    /\ overwrite = FALSE
    /\ last = NoCall
    /\ nOps = 0
    /\ nKeys = 0
    /\ chain = NoChain
    /\ pc = 0

\* a number key is taken from the budget
Typed == nKeys < MaxKeys /\ nKeys' = nKeys + 1

\* compute or chooseOperation finds both operands present
Evaluates == previousOperand # <<>> /\ currentOperand # <<>>

\* an evaluation is taken from the budget
Counted == IF Evaluates THEN nOps < MaxOps /\ nOps' = nOps + 1 ELSE nOps' = nOps

ClickClear ==
    clear /\ Call("clear", "") /\ nOps' = 0 /\ nKeys' = 0 /\ UNCHANGED <<chain, pc>>

ClickDelete ==
    deleteNumber /\ Call("deleteNumber", "") /\ UNCHANGED <<nOps, nKeys, chain, pc>>

ClickNumber(number) ==
    Typed /\ appendNumber(number) /\ Call("appendNumber", number)
          /\ UNCHANGED <<nOps, chain, pc>>

ClickOperation(op) ==
    Counted /\ chooseOperation(op) /\ Call("chooseOperation", op)
            /\ UNCHANGED <<nKeys, chain, pc>>

ClickEquals ==
    Counted /\ compute /\ Call("compute", "") /\ UNCHANGED <<nKeys, chain, pc>>

KeyDown(key) ==
    /\ IF IsDigit(key) \/ key = "." THEN Typed /\ nOps' = nOps
       ELSE IF key \in {"=", "Enter", "+", "-", "*", "/"} THEN Counted /\ nKeys' = nKeys
       ELSE IF key = "Escape" THEN nOps' = 0 /\ nKeys' = 0
       ELSE UNCHANGED <<nOps, nKeys>>
    /\ handleKeyDown(key)
    /\ UNCHANGED <<chain, pc>>

Next ==
    \/ ClickClear
    \/ ClickDelete
    \/ \E number \in Digits \cup {"."} : ClickNumber(number)
    \/ \E op \in Operations : ClickOperation(op)
    \/ ClickEquals
    \/ \E key \in Keys : KeyDown(key)

Spec == Init /\ [][Next]_vars

(***************************************************************************)
(* The calculator driven by the keyboard alone.                            *)
(***************************************************************************)
KeyNext == \E key \in Keys : KeyDown(key) /\ nKeys' <= KeyMaxKeys

KeySpec == Init /\ [][KeyNext]_vars

(***************************************************************************)
(* The calculator driven by one chain: operand a, an operator, operand b,  *)
(* an operator, operand c, then "=".                                       *)
(***************************************************************************)
ChainDigits == {DigitChar(i) : i \in 0..Min(ChainMaxDigit, 9)}

\* the key sequences that type an operand: at most one '.'
Operands(n) ==
    {s \in UNION {[1..k -> ChainDigits \cup {"."}] : k \in 1..n} :
        Cardinality({i \in 1..Len(s) : s[i] = "."}) <= 1}

Chains ==
    {ch \in [a : Operands(ChainMaxKeys - 2), op1 : Operations,
             b : Operands(ChainMaxKeys - 2), op2 : Operations,
             c : Operands(ChainMaxKeys - 2)] :
        Len(ch.a) + Len(ch.b) + Len(ch.c) <= ChainMaxKeys}

Script(ch) == ch.a \o <<ch.op1>> \o ch.b \o <<ch.op2>> \o ch.c \o <<"=">>

ChainInit ==
    /\ currentOperand = <<>>
    /\ previousOperand = <<>>
    /\ operation = Undefined
    /\ overwrite = FALSE
    /\ last = NoCall
    /\ nOps = 0
    /\ nKeys = 0
    /\ chain \in Chains
    /\ pc = 0

ChainNumber ==
    /\ pc < Len(Script(chain))
    /\ Script(chain)[pc + 1] \in ChainDigits \cup {"."}
    /\ appendNumber(Script(chain)[pc + 1])
    /\ Call("appendNumber", Script(chain)[pc + 1])
    /\ pc' = pc + 1
    /\ UNCHANGED <<nOps, nKeys, chain>>

ChainOperation ==
    /\ pc < Len(Script(chain))
    /\ Script(chain)[pc + 1] \in Operations
    /\ chooseOperation(Script(chain)[pc + 1])
    /\ Call("chooseOperation", Script(chain)[pc + 1])
    /\ pc' = pc + 1
    /\ UNCHANGED <<nOps, nKeys, chain>>

ChainEquals ==
    /\ pc < Len(Script(chain))
    /\ Script(chain)[pc + 1] = "="
    /\ compute
    /\ Call("compute", "")
    /\ pc' = pc + 1
    /\ UNCHANGED <<nOps, nKeys, chain>>

ChainNext == ChainNumber \/ ChainOperation \/ ChainEquals

ChainSpec == ChainInit /\ [][ChainNext]_vars

(***************************************************************************)
(* What the claims speak of.                                               *)
(***************************************************************************)
\* how often the character c occurs in the text s
CountOf(s, c) == Cardinality({i \in 1..Len(s) : s[i] = c})

\* the text t occurs in the text s
Contains(s, t) == \E i \in 0..(Len(s) - Len(t)) : SubSeq(s, i + 1, i + Len(t)) = t

\* x op y as a number, not rounded
Arith(op, x, y) ==
    CASE op = "+" -> NumAdd(x, y)
      [] op = "-" -> NumSub(x, y)
      [] op = "*" -> NumMul(x, y)
      [] op = "÷" -> NumDiv(x, y)

\* the texts of x rounded to 8 decimal places
Texts(x) == {toString(r) : r \in Round8(x)}

\* the text is that of the number x itself
TextOf(text, x) == IF isNaN(x) THEN text = NaNText ELSE NumEq(parseFloat(text), x)

\* decimal digits and at most one '.'
IsTyped(s) ==
    /\ \A i \in 1..Len(s) : IsDigit(s[i]) \/ s[i] = "."
    /\ CountOf(s, ".") <= 1

\* the text String(x) of a number x with at most 8 decimal places
IsResult(s) == s \in Texts(parseFloat(s))

\* compute() is called with two operands that parse and an operator pending
ComputeCase ==
    /\ last'.handler = "compute"
    /\ ~isNaN(parseFloat(previousOperand))
    /\ ~isNaN(parseFloat(currentOperand))
    /\ operation \in Operations

\* C1 as stated: when both operands parse as numbers and an operator is
\* pending, compute() sets currentOperand to the text of the number
\* (previousOperand op currentOperand) itself, empties previousOperand,
\* clears operation and sets overwrite.
C1_ComputeExact ==
    [][ComputeCase =>
          /\ TextOf(currentOperand',
                    Arith(operation, parseFloat(previousOperand), parseFloat(currentOperand)))
          /\ previousOperand' = <<>>
          /\ operation' = Undefined
          /\ overwrite' = TRUE]_vars

\* C1 amended: when both operands parse as numbers and an operator is
\* pending, compute() sets currentOperand to the text of
\* (previousOperand op currentOperand) rounded to 8 decimal places, empties
\* previousOperand, clears operation and sets overwrite.
C1_ComputeRounded ==
    [][ComputeCase =>
          /\ currentOperand' \in
                 Texts(Arith(operation, parseFloat(previousOperand), parseFloat(currentOperand)))
          /\ previousOperand' = <<>>
          /\ operation' = Undefined
          /\ overwrite' = TRUE]_vars

\* C1 witness: compute() has just turned 1 ÷ 3 into "0.33333333"
C1_Witness ==
    /\ last.handler = "compute"
    /\ last.changed
    /\ overwrite
    /\ previousOperand = <<>>
    /\ operation = Undefined
    /\ currentOperand = <<"0", ".", "3", "3", "3", "3", "3", "3", "3", "3">>

\* the number typed with the keys of an operand of a chain
Entered(keys) == parseFloat(<<"0">> \o keys)

\* the position in the script after chooseOperation(op2), and after compute()
AfterOp2 == Len(chain.a) + Len(chain.b) + 2

AtEnd == Len(Script(chain))

\* a op1 b, not rounded
FirstResult == Arith(chain.op1, Entered(chain.a), Entered(chain.b))

\* C2 as stated: in a op1 b op2 c =, after chooseOperation(op2)
\* previousOperand is the text of (a op1 b), operation is op2 and
\* currentOperand is empty; after compute() currentOperand is the text of
\* ((a op1 b) op2 c).  Texts are read to 8 decimal places, and the end is
\* read only where (a op1 b) is a number.
C2_LeftToRight ==
    /\ pc = AfterOp2 =>
          /\ previousOperand \in Texts(FirstResult)
          /\ operation = chain.op2
          /\ currentOperand = <<>>
    /\ (pc = AtEnd /\ ~isNaN(FirstResult)) =>
          currentOperand \in Texts(Arith(chain.op2, FirstResult, Entered(chain.c)))

\* C2 amended: after chooseOperation(op2) previousOperand is the text of
\* r = (a op1 b) rounded to 8 decimal places, operation is op2 and
\* currentOperand is empty; after compute() currentOperand is the text of
\* (r op2 c) rounded to 8 decimal places when r is a number; when r is NaN
\* compute() changes nothing: previousOperand stays "NaN", operation stays
\* op2 and currentOperand stays c.
C2_LeftToRightRounded ==
    /\ pc = AfterOp2 =>
          /\ previousOperand \in Texts(FirstResult)
          /\ operation = chain.op2
          /\ currentOperand = <<>>
    /\ pc = AtEnd =>
          \E r \in Round8(FirstResult) :
              IF isNaN(r)
              THEN /\ previousOperand = NaNText
                   /\ operation = chain.op2
                   /\ TextOf(currentOperand, Entered(chain.c))
                   /\ ~overwrite
              ELSE /\ currentOperand \in Texts(Arith(chain.op2, r, Entered(chain.c)))
                   /\ previousOperand = <<>>
                   /\ operation = Undefined
                   /\ overwrite

\* C2 witness: 1 ÷ 3 * 3 = has ended with "0.99999999"
C2_Witness ==
    /\ pc = AtEnd
    /\ chain = [a |-> <<"1">>, op1 |-> "÷", b |-> <<"3">>, op2 |-> "*", c |-> <<"3">>]
    /\ currentOperand = <<"0", ".", "9", "9", "9", "9", "9", "9", "9", "9">>

\* C3: whenever currentOperand is empty, appendDigit('.') leaves
\* currentOperand equal to "0.".
C3_PointOnEmpty ==
    [][(last'.handler = "appendNumber" /\ last'.arg = "." /\ currentOperand = <<>>)
          => currentOperand' = <<"0", ".">>]_vars

\* C4: whenever overwrite is true, appendDigit(d), for a digit or '.',
\* replaces currentOperand with exactly d and sets overwrite to false.
C4_OverwriteReplaces ==
    [][(last'.handler = "appendNumber" /\ overwrite)
          => (currentOperand' = <<last'.arg>> /\ overwrite' = FALSE)]_vars

\* appendDigit('0') is called with currentOperand "0"
ZeroOnZero ==
    /\ last'.handler = "appendNumber"
    /\ last'.arg = "0"
    /\ currentOperand = <<"0">>

\* C5 as stated: whenever currentOperand is "0", appendDigit('0') changes
\* none of the four fields.
C5_ZeroNoOp == [][ZeroOnZero => UNCHANGED fields]_vars

\* C5 amended: whenever currentOperand is "0", appendDigit('0') leaves
\* currentOperand, previousOperand and operation unchanged; overwrite is
\* unchanged when it was false and becomes false when it was true.
C5_ZeroKeepsOperands ==
    [][ZeroOnZero =>
          /\ UNCHANGED <<currentOperand, previousOperand, operation>>
          /\ overwrite' = (IF overwrite THEN FALSE ELSE overwrite)]_vars

\* C5 witness: appendDigit('0') has just been ignored on "0"
C5_Witness ==
    /\ last.handler = "appendNumber"
    /\ last.arg = "0"
    /\ ~last.overwrite
    /\ ~last.changed
    /\ currentOperand = <<"0">>

\* C6 as stated: currentOperand and previousOperand hold only decimal
\* digits and at most one '.': no sign, no exponent, no letters.
C6_DigitsOnly == IsTyped(currentOperand) /\ IsTyped(previousOperand)

\* C6 amended: each of currentOperand and previousOperand is a text of
\* decimal digits with at most one '.' (possibly empty), or the text
\* String(x) of a number x with at most 8 decimal places, which starts with
\* '-' when x is negative and is "Infinity", "-Infinity" or "NaN" when x is
\* not finite.
C6_TypedOrResult ==
    \A s \in {currentOperand, previousOperand} : IsTyped(s) \/ IsResult(s)

\* C6 witness: 0 - 1 = has left "-1"
C6_Witness ==
    /\ last.handler = "compute"
    /\ overwrite
    /\ currentOperand = <<"-", "1">>

\* C7: currentOperand holds at most one '.', and so does previousOperand.
C7_OnePoint == CountOf(currentOperand, ".") <= 1 /\ CountOf(previousOperand, ".") <= 1

\* C7 witness: a second '.' has just been refused
C7_Witness ==
    /\ last.handler = "appendNumber"
    /\ last.arg = "."
    /\ ~last.changed
    /\ CountOf(currentOperand, ".") = 1

\* C8: if operation is set then previousOperand is not empty.
C8_OperationHasPrevious == operation # Undefined => previousOperand # <<>>

\* C8 witness: chooseOperation has just set an operator
C8_Witness ==
    /\ last.handler = "chooseOperation"
    /\ last.changed
    /\ operation = last.arg
    /\ previousOperand # <<>>

\* the text names a value that is no number
IsErrorText(s) == s \in {NaNText, InfinityText, <<"-">> \o InfinityText}

\* C9: neither operand is ever "NaN" or "Infinity", and the text displayed
\* for them never contains "NaN" or "Infinity".
C9_NoErrorState ==
    /\ ~IsErrorText(currentOperand)
    /\ ~IsErrorText(previousOperand)
    /\ \A shown \in {currentDisplay, previousDisplay} :
           ~Contains(shown, NaNText) /\ ~Contains(shown, InfinityText)

\* C10: deleteLast() with overwrite set empties currentOperand and clears
\* overwrite; with overwrite clear it removes exactly the last character of
\* currentOperand, and changes nothing when currentOperand is empty.
C10_DeleteLast ==
    [][last'.handler = "deleteNumber" =>
          IF overwrite
          THEN currentOperand' = <<>> /\ overwrite' = FALSE
          ELSE IF currentOperand = <<>>
          THEN UNCHANGED fields
          ELSE currentOperand' \o <<Last(currentOperand)>> = currentOperand]_vars

\* C10 witness: deleteLast() has just cleared a result of compute()
C10_Witness ==
    /\ last.handler = "deleteNumber"
    /\ last.overwrite
    /\ last.changed
    /\ currentOperand = <<>>
    /\ ~overwrite
    /\ nOps > 0

\* C11: compute() changes none of the four fields when previousOperand or
\* currentOperand does not parse as a number (empty and "." among them); a
\* pending operation stays pending.
C11_ComputeNoOp ==
    [][(/\ last'.handler = "compute"
        /\ \/ isNaN(parseFloat(previousOperand))
           \/ isNaN(parseFloat(currentOperand)))
          => UNCHANGED fields]_vars

\* C11 witness: compute() has just been ignored with "." as currentOperand
\* and an operation pending
C11_Witness ==
    /\ last.handler = "compute"
    /\ ~last.changed
    /\ currentOperand = <<".">>
    /\ previousOperand # <<>>
    /\ operation \in Operations

\* C12: chooseOperation(op) changes none of the four fields when
\* currentOperand is empty; a pending operation is not replaced by a second
\* operator pressed before a new operand is entered.
C12_ChooseNoOp ==
    [][(last'.handler = "chooseOperation" /\ currentOperand = <<>>)
          => UNCHANGED fields]_vars

\* C12 witness: a second operator, other than the pending one, has just
\* been ignored
C12_Witness ==
    /\ last.handler = "chooseOperation"
    /\ ~last.changed
    /\ currentOperand = <<>>
    /\ operation \in Operations
    /\ operation # last.arg

\* the four fields as useState creates them
InitialFields == <<<<>>, <<>>, Undefined, FALSE>>

\* C13: in every reachable state clear() can be called (the AC button is
\* always there), and one call of clear() leaves exactly the initial state:
\* currentOperand empty, previousOperand empty, operation none, overwrite
\* false.  So the initial state can be reached again from every state.
C13_ClearResets ==
    /\ [](ENABLED ClickClear)
    /\ [][last'.handler = "clear" => fields' = InitialFields]_vars

\* C13 witness: clear() has just reset a state that held a result
C13_Witness ==
    /\ last.handler = "clear"
    /\ last.overwrite
    /\ last.changed
    /\ fields = InitialFields

\* what the button of a key does to the four fields: the number buttons
\* call appendDigit, "=" calls compute, DEL calls deleteLast, AC calls clear
\* and the operator buttons call chooseOperation; a key without a button
\* does nothing
ButtonOf(key) ==
    IF key \in Digits \cup {"."} THEN appendNumber(key)
    ELSE IF key \in {"Enter", "="} THEN compute
    ELSE IF key = "Backspace" THEN deleteNumber
    ELSE IF key = "Escape" THEN clear
    ELSE IF key \in {"+", "-", "*"} THEN chooseOperation(key)
    ELSE IF key = "/" THEN chooseOperation("÷")
    ELSE UNCHANGED fields

\* C14: every key press has the effect of its button on the four fields:
\* '0'..'9' and '.' that of appendDigit(key), 'Enter' and '=' that of
\* compute(), 'Backspace' that of deleteLast(), 'Escape' that of clear(),
\* '+', '-', '*' that of chooseOperation(key) and '/' that of
\* chooseOperation('÷'); any other key changes nothing; operation never
\* holds '/'.
C14_KeysAreButtons ==
    [][/\ \A key \in Keys : KeyDown(key) => ButtonOf(key)
       /\ operation' # "/"]_vars

\* C14 witness: the key '/' has just set the operation '÷' (in KeySpec no
\* button is clicked)
C14_Witness ==
    /\ last.handler = "chooseOperation"
    /\ last.arg = "÷"
    /\ last.changed
    /\ operation = "÷"

\* chooseOperation(op') is called with an operation pending and two
\* operands that parse
FoldCase ==
    /\ last'.handler = "chooseOperation"
    /\ operation \in Operations
    /\ ~isNaN(parseFloat(previousOperand))
    /\ ~isNaN(parseFloat(currentOperand))

\* C15: when an operation is pending and both operands parse,
\* chooseOperation(op') leaves in previousOperand a text that compute()
\* can leave in currentOperand from the same state, sets operation to op'
\* and empties currentOperand.
C15_SameArithmetic ==
    [][FoldCase =>
          /\ \E text \in {previousOperand'} : ENABLED (compute /\ currentOperand' = text)
          /\ operation' = last'.arg
          /\ currentOperand' = <<>>]_vars

\* C15 witness: chooseOperation has just folded 1 ÷ 3 into "0.33333333"
C15_Witness ==
    /\ last.handler = "chooseOperation"
    /\ last.changed
    /\ operation = last.arg
    /\ currentOperand = <<>>
    /\ previousOperand = <<"0", ".", "3", "3", "3", "3", "3", "3", "3", "3">>

\* chooseOperation(op) is called with both operands present and an
\* operation pending, and one of the operands does not parse
FallbackCase ==
    /\ last'.handler = "chooseOperation"
    /\ previousOperand # <<>>
    /\ operation \in Operations
    /\ currentOperand # <<>>
    /\ \/ isNaN(parseFloat(previousOperand))
       \/ isNaN(parseFloat(currentOperand))

\* C16: when both operands are present, an operation is pending and one of
\* the operands does not parse, chooseOperation(op) sets previousOperand to
\* the text of currentOperand as it is, sets operation to op and empties
\* currentOperand; the old previousOperand is dropped.
C16_FallbackKeepsCurrent ==
    [][FallbackCase =>
          /\ previousOperand' = currentOperand
          /\ operation' = last'.arg
          /\ currentOperand' = <<>>]_vars

\* C16 witness: chooseOperation has just moved "." over a previous
\* operand.  nOps counts the calls that found both operands present; "."
\* is typed only after a result, which takes one such call, so with two of
\* them counted the second one found "." beside a previous operand.
C16_Witness ==
    /\ last.handler = "chooseOperation"
    /\ last.changed
    /\ previousOperand = <<".">>
    /\ operation = last.arg
    /\ currentOperand = <<>>
    /\ nOps = 2

\* C17: whenever overwrite is false, currentOperand holds only decimal
\* digits and at most one '.'; a currentOperand that holds anything else (a
\* negative or non-finite result of compute()) changes only by being
\* cleared (clear, deleteLast), by being replaced by the typed character
\* (appendDigit), or by being moved to previousOperand (chooseOperation).
C17_ResultsUnderOverwrite ==
    /\ [](~overwrite => IsTyped(currentOperand))
    /\ [][(~IsTyped(currentOperand) /\ currentOperand' # currentOperand) =>
             \/ /\ last'.handler \in {"clear", "deleteNumber"}
                /\ currentOperand' = <<>>
             \/ /\ last'.handler = "appendNumber"
                /\ currentOperand' = <<last'.arg>>
             \/ /\ last'.handler = "chooseOperation"
                /\ currentOperand' = <<>>
                /\ previousOperand' = currentOperand]_vars

\* C17 witness: chooseOperation has just moved the result "-1" to
\* previousOperand, and overwrite is still true
C17_Witness ==
    /\ last.handler = "chooseOperation"
    /\ last.overwrite
    /\ last.changed
    /\ overwrite
    /\ currentOperand = <<>>
    /\ previousOperand = <<"-", "1">>

\* C18: previousOperand is not empty exactly when operation is set; so
\* chooseOperation never meets a previous operand without an operation (its
\* 'default: return'), and chooseOperation(op) called with a currentOperand
\* that is not empty always ends with operation = op and currentOperand
\* empty.
C18_PreviousIffOperation ==
    /\ []((previousOperand # <<>>) <=> (operation \in Operations))
    /\ [][(last'.handler = "chooseOperation" /\ currentOperand # <<>>) =>
             (operation' = last'.arg /\ currentOperand' = <<>>)]_vars

\* C18 witness: chooseOperation has just folded two operands (nOps counts
\* it), so it went through its switch, and has set its operator
C18_Witness ==
    /\ last.handler = "chooseOperation"
    /\ last.changed
    /\ ~last.overwrite
    /\ nOps = 1
    /\ operation = last.arg
    /\ currentOperand = <<>>
    /\ previousOperand = <<"5">>

\* C19: appendDigit and deleteLast never change previousOperand or
\* operation, and chooseOperation never changes overwrite; so
\* chooseOperation(op) called on the result of compute() (overwrite true,
\* currentOperand not empty) leaves currentOperand empty and overwrite
\* still true.
C19_Frames ==
    [][/\ last'.handler \in {"appendNumber", "deleteNumber"}
             => UNCHANGED <<previousOperand, operation>>
       /\ last'.handler = "chooseOperation" => UNCHANGED overwrite
       /\ (last'.handler = "chooseOperation" /\ overwrite /\ currentOperand # <<>>)
             => (currentOperand' = <<>> /\ overwrite')]_vars

\* C19 witness: after 1 + 1 =, chooseOperation has just taken the result
\* "2": currentOperand is empty and overwrite is still true
C19_Witness ==
    /\ last.handler = "chooseOperation"
    /\ last.overwrite
    /\ last.changed
    /\ overwrite
    /\ currentOperand = <<>>
    /\ previousOperand = <<"2">>
    /\ operation = last.arg

\* C20: currentOperand never begins with two zeros, whatever the overwrite
\* flag.
C20_NoDoubleZero == ~StartsWith(currentOperand, <<"0", "0">>)

\* C20 witness: a second zero has just been refused on the second operand
\* "0"
C20_Witness ==
    /\ last.handler = "appendNumber"
    /\ last.arg = "0"
    /\ ~last.changed
    /\ currentOperand = <<"0">>
    /\ previousOperand # <<>>

====
